---- MODULE Spec2Model ----
(***************************************************************************)
(* Docktor: multi-metric scaling decision engine (toolDecideScaleMulti),   *)
(* its MCP tool entry point (mcpToolsCall "decide_scale_multi") and the    *)
(* per-service monitoring daemon (monitorService / runScalingIteration).   *)
(*                                                                         *)
(* Two specifications share the module:                                    *)
(*   Spec        the MCP tool server answering decide_scale_multi calls    *)
(*               with arbitrary arguments (the decision engine as a        *)
(*               function of its inputs);                                  *)
(*   SpecDaemon  the daemon: one monitor goroutine per configured service. *)
(* Floating-point metric values and thresholds are represented by small    *)
(* integers: only their order and equality matter to the engine.           *)
(***************************************************************************)
EXTENDS Integers, Sequences, FiniteSets, TLC

\* ---------------------------------------------------------------- bounds
\* largest replica count the workload reports (current_replicas)
MaxCurrent == 4
\* largest min_replicas / max_replicas of a service
MaxReplicas == 2
\* largest total number of conditions in a rule set (both lists together)
MaxConds == 2
\* largest number of ticks a monitor handles (iteration counter)
MaxIter == 2
\* lines in the decisions file read by explain
MaxLedger == 3

\* ------------------------------------------------------------ input sets
MetricNames == {"cpu.avg", "queue.backlog"}
Ops == {">", ">=", "<", "<=", "==", "!="}
Thresholds == {1}
Values == {0, 1, 2}

\* type Condition struct {Metric, Op, Value}
Condition == [Metric : MetricNames, Op : Ops, Value : Thresholds]

\* sequences of conditions of length n
CondSeqs(n) == [1..n -> Condition]

\* type Rules struct {ScaleUpWhen, ScaleDownWhen}
Rules ==
    UNION { { [ScaleUpWhen |-> u, ScaleDownWhen |-> d] :
                u \in CondSeqs(nu), d \in CondSeqs(nd) } :
            <<nu, nd>> \in { p \in (0..MaxConds) \X (0..MaxConds) :
                               p[1] + p[2] <= MaxConds } }

\* map[string]float64: a function from the metric names present to values
ObservationSets == UNION { [ms -> Values] : ms \in SUBSET MetricNames }

\* ------------------------------------------------------- decision engine
\* a Go interface{} value: dynamic type and value
Iface(t, v) == [type |-> t, val |-> v]

\* Go map index expression m[k]: the zero value when the key is absent
MapGet(observations, k) ==
    IF k \in DOMAIN observations THEN observations[k] ELSE 0

\* the comparison switch of evaluateCondition
Compare(value, op, threshold) ==
    CASE op = ">"  -> value > threshold
      [] op = ">=" -> value >= threshold
      [] op = "<"  -> value < threshold
      [] op = "<=" -> value <= threshold
      [] op = "==" -> value = threshold
      [] op = "!=" -> value # threshold
      [] OTHER -> FALSE

\* mutant: no existence check, an absent metric reads as the zero value
evaluateCondition_NoExistsCheck(observations, cond) ==
    Compare(MapGet(observations, cond.Metric), cond.Op, cond.Value)

\* the evaluateCondition closure of toolDecideScaleMulti
evaluateCondition(observations, cond) ==
    IF cond.Metric \notin DOMAIN observations
    THEN FALSE
    ELSE Compare(MapGet(observations, cond.Metric), cond.Op, cond.Value)

\* fmt.Sprintf("%s %.1f %s %.1f", cond.Metric, val, cond.Op, cond.Value)
FmtMatch(observations, cond) ==
    <<cond.Metric, MapGet(observations, cond.Metric), cond.Op, cond.Value>>

\* mutant: the loop stops at the first matching condition
Matches_FirstOnly(observations, conds) ==
    LET hit == SelectSeq(conds, LAMBDA c : evaluateCondition(observations, c))
    IN  [i \in 1..(IF Len(hit) > 0 THEN 1 ELSE 0) |-> FmtMatch(observations, hit[i])]

\* the loop that collects the formatted matches of one condition list
Matches(observations, conds) ==
    LET hit == SelectSeq(conds, LAMBDA c : evaluateCondition(observations, c))
    IN  [i \in 1..Len(hit) |-> FmtMatch(observations, hit[i])]

\* mutant: the AND of an empty list taken as true
AllScaleDownMatch_EmptyTrue(observations, conds) ==
    \A i \in 1..Len(conds) : evaluateCondition(observations, conds[i])

\* allScaleDownMatch: the list is non-empty and no condition failed
AllScaleDownMatch(observations, conds) ==
    /\ Len(conds) > 0
    /\ \A i \in 1..Len(conds) : evaluateCondition(observations, conds[i])

\* strings.Join(parts, sep): the separator appears only between elements
StringsJoin(parts, sep) ==
    [kind |-> "joined",
     sep |-> IF Len(parts) > 1 THEN sep ELSE "",
     parts |-> parts]

\* mutant: scale-down tested before scale-up
Branch_DownFirst(scaleUpMatches, allScaleDownMatch) ==
    IF allScaleDownMatch THEN "scale_down"
    ELSE IF Len(scaleUpMatches) > 0 THEN "scale_up"
    ELSE "hold"

\* the if / else-if / else that picks the branch of the decision
Branch(scaleUpMatches, allScaleDownMatch) ==
    IF Len(scaleUpMatches) > 0 THEN "scale_up"
    ELSE IF allScaleDownMatch THEN "scale_down"
    ELSE "hold"

\* mutant: the cap at max_replicas left out
ScaleUpTarget_NoCap(currentReplicas, maxReplicas) ==
    currentReplicas + 2

\* mutant: a step of 1 instead of 2
ScaleUpTarget_Step1(currentReplicas, maxReplicas) ==
    IF currentReplicas + 1 > maxReplicas THEN maxReplicas
    ELSE currentReplicas + 1

\* the scale-up branch: current + 2, capped at max
ScaleUpTarget(currentReplicas, maxReplicas) ==
    IF currentReplicas + 2 > maxReplicas THEN maxReplicas
    ELSE currentReplicas + 2

\* mutant: the floor at min_replicas left out
ScaleDownTarget_NoFloor(currentReplicas, minReplicas) ==
    currentReplicas - 1

\* the scale-down branch: current - 1, raised to min
ScaleDownTarget(currentReplicas, minReplicas) ==
    IF currentReplicas - 1 < minReplicas THEN minReplicas
    ELSE currentReplicas - 1

\* mutant: hold whenever the target is not below the current count
FinalAction_HoldAtOrAbove(action, targetReplicas, currentReplicas) ==
    IF targetReplicas >= currentReplicas THEN "hold" ELSE action

\* mutant: the action is never converted to hold
FinalAction_NoDowngrade(action, targetReplicas, currentReplicas) ==
    action

\* "convert to hold if no change"
FinalAction(action, targetReplicas, currentReplicas) ==
    IF targetReplicas = currentReplicas THEN "hold" ELSE action

\* mutant: the reason is replaced whenever the target is unchanged
FinalReason_AlwaysAtTarget(reason, matchedRules, targetReplicas, currentReplicas) ==
    IF targetReplicas = currentReplicas
    THEN [kind |-> "already at target replicas", n |-> currentReplicas]
    ELSE reason

\* the reason after the final no-change check
FinalReason(reason, matchedRules, targetReplicas, currentReplicas) ==
    IF targetReplicas = currentReplicas /\ Len(matchedRules) > 0
    THEN [kind |-> "already at target replicas", n |-> currentReplicas]
    ELSE reason

\* toolDecideScaleMulti: its locals at return, the returned map and error
toolDecideScaleMulti(currentReplicas, minReplicas, maxReplicas, rules, observations) ==
    LET scaleUpMatches == Matches(observations, rules.ScaleUpWhen)
        scaleDownMatches == Matches(observations, rules.ScaleDownWhen)
        allScaleDownMatch == AllScaleDownMatch(observations, rules.ScaleDownWhen)
        branch == Branch(scaleUpMatches, allScaleDownMatch)
        targetReplicas ==
            CASE branch = "scale_up" -> ScaleUpTarget(currentReplicas, maxReplicas)
              [] branch = "scale_down" -> ScaleDownTarget(currentReplicas, minReplicas)
              [] OTHER -> currentReplicas
        reason ==
            CASE branch = "scale_up" -> StringsJoin(scaleUpMatches, " OR ")
              [] branch = "scale_down" -> StringsJoin(scaleDownMatches, " AND ")
              [] OTHER -> [kind |-> "no scaling conditions met"]
        matchedRules ==
            CASE branch = "scale_up" -> scaleUpMatches
              [] branch = "scale_down" -> scaleDownMatches
              [] OTHER -> << >>
    IN  [scaleUpMatches |-> scaleUpMatches,
         scaleDownMatches |-> scaleDownMatches,
         allScaleDownMatch |-> allScaleDownMatch,
         err |-> "nil",
         ret |->
           [action |-> Iface("string",
                          FinalAction(branch, targetReplicas, currentReplicas)),
            target_replicas |-> Iface("int", targetReplicas),
            current_replicas |-> Iface("int", currentReplicas),
            reason |-> Iface("string",
                          FinalReason(reason, matchedRules, targetReplicas,
                                      currentReplicas)),
            policy |-> Iface("string", "multi-metric evaluation"),
            matched_rules |-> Iface("[]string", matchedRules)]]

\* toJSON: json.Marshal of the map; the Go dynamic types are erased
toJSON(m) == [k \in DOMAIN m |-> m[k].val]

\* ----------------------------------------------------------------- state
VARIABLES
    req,          \* arguments of the decide_scale_multi call read from stdin
    eng,          \* toolDecideScaleMulti's locals and results for that call
    res,          \* response written for that call, or NoCall while pending
    proc,         \* the daemon process: "not_started", "running", "panicked", "terminated"
    svcs,         \* cfg.Services: service name -> ServiceConfig
    replicas,     \* the workload: running containers of each service
    monPc,        \* each monitor's position in monitorService / runScalingIteration
    monIter,      \* monitorService's iteration counter
    monCurrent,   \* runScalingIteration's currentReplicas
    monObs,       \* runScalingIteration's observations map
    monDecision,  \* runScalingIteration's decision map
    monLog,       \* the last line each monitor wrote to the daemon log
    applied,      \* the apply-scale commands run, in order
    ledger,       \* lines of /tmp/docktor-decisions.jsonl
    registry,     \* package queue: kind -> registered factory
    heap,         \* the queue providers allocated so far, by address
    qcall,        \* each caller's position in its queue collection
    decisionsFile,\* bytes of /tmp/docktor-decisions.jsonl, in file order
    logCall       \* each caller's position in logDecisionJSONL

mcpVars == <<req, eng, res>>
queueVars == <<registry, heap, qcall>>
logVars == <<decisionsFile, logCall>>
daemonVars == <<proc, svcs, replicas, monPc, monIter, monCurrent, monObs,
                monDecision, monLog, applied, ledger>>
vars == <<mcpVars, daemonVars, queueVars, logVars>>

NoCall == [kind |-> "none"]

\* the "in" struct decoded from the call's arguments
DecideArgs ==
    [current_replicas : 0..MaxCurrent,
     min_replicas : 1..MaxReplicas,
     max_replicas : 1..MaxReplicas,
     rules : Rules,
     observations : ObservationSets]

\* ServiceSpec: max_replicas >= min_replicas >= 1
ValidBounds(a) == a.min_replicas <= a.max_replicas

\* ---------------------------------------------------------- daemon state
Services == {"web", "worker"}

\* a container of the service, as docker stats names it
ContainerName == [web |-> "web-1", worker |-> "worker-1"]

\* svc.Queue: nil or a queue configuration
NilQueue == [Kind |-> "nil"]
NatsQueue == [Kind |-> "nats"]

\* the rules of the configured services: CPU rules for web (no queue),
\* queue rules for worker
DaemonRules ==
    [web |-> [ScaleUpWhen |-> << [Metric |-> "cpu.avg", Op |-> ">", Value |-> 1] >>,
              ScaleDownWhen |-> << [Metric |-> "cpu.avg", Op |-> "<", Value |-> 1] >>],
     worker |-> [ScaleUpWhen |-> << [Metric |-> "queue.backlog", Op |-> ">", Value |-> 1] >>,
                 ScaleDownWhen |-> << [Metric |-> "queue.backlog", Op |-> "<=", Value |-> 1] >>]]
DaemonQueue == [web |-> NilQueue, worker |-> NatsQueue]

\* type ServiceConfig struct, for service s
ServiceConfigs(s) ==
    { [Name |-> s, MinReplicas |-> lo, MaxReplicas |-> hi,
       Rules |-> DaemonRules[s], Queue |-> DaemonQueue[s]] :
      lo \in 1..MaxReplicas, hi \in 1..MaxReplicas }

\* values docker stats and the queue backend report
CpuValues == {2}
QueueBacklogs == {0, 2}

EmptyMap == [k \in {} |-> 0]
NoDecision == [kind |-> "none"]

\* the daemon has not been started
DaemonOff ==
    /\ proc = "not_started"
    /\ svcs = [s \in Services |-> NoDecision]
    /\ replicas = [s \in Services |-> 0]
    /\ monPc = [s \in Services |-> "off"]
    /\ monIter = [s \in Services |-> 0]
    /\ monCurrent = [s \in Services |-> 0]
    /\ monObs = [s \in Services |-> EmptyMap]
    /\ monDecision = [s \in Services |-> NoDecision]
    /\ monLog = [s \in Services |-> "Monitor started"]
    /\ applied = << >>
    /\ ledger = << >>

\* package queue after init(): the NATS factory is registered, no provider
\* has been constructed and nobody is collecting
IdleCall == [pc |-> "idle", n |-> 0, prov |-> 0, ret |-> "none"]
NotLogging == [pc |-> "idle", n |-> 0, err |-> "nil"]
QueueOff ==
    /\ registry = [k \in {"nats"} |-> "NewNATSProvider"]
    /\ heap = << >>
    /\ qcall = [s \in Services |-> IdleCall]
    /\ decisionsFile = << >>
    /\ logCall = [s \in Services |-> NotLogging]

\* runMCP has decoded a tools/call request; any arguments may arrive
Init ==
    /\ req \in { a \in DecideArgs : ValidBounds(a) }
    /\ eng = NoCall
    /\ res = NoCall
    /\ DaemonOff
    /\ QueueOff

\* mcpToolsCall, case "decide_scale_multi": writeErr on error, else writeRes
McpDecideScaleMulti ==
    /\ res = NoCall
    /\ LET r == toolDecideScaleMulti(req.current_replicas, req.min_replicas,
                                     req.max_replicas, req.rules,
                                     req.observations)
       IN  /\ eng' = r
           /\ res' = IF r.err # "nil"
                     THEN [error |-> r.err]
                     ELSE [content |-> toJSON(r.ret), isError |-> FALSE]
    /\ UNCHANGED req
    /\ UNCHANGED <<daemonVars, queueVars, logVars>>

Next ==
    McpDecideScaleMulti

Spec == Init /\ [][Next]_vars

\* ---------------------------------------------------------------- daemon
\* daemonStart: the configuration is loaded, the stack is started with
\* --scale svc=MinReplicas for every service, one monitor goroutine is
\* started per service and waits for its first tick.  The services are
\* taken with 1 <= MinReplicas <= MaxReplicas (ServiceSpec).
InitDaemon ==
    /\ req = NoCall /\ eng = NoCall /\ res = NoCall
    /\ proc = "running"
    /\ svcs \in { f \in [Services -> UNION { ServiceConfigs(s) : s \in Services }] :
                    \A s \in Services : /\ f[s] \in ServiceConfigs(s)
                                        /\ f[s].MinReplicas <= f[s].MaxReplicas }
    /\ replicas = [s \in Services |-> svcs[s].MinReplicas]
    /\ monPc = [s \in Services |-> "wait"]
    /\ monIter = [s \in Services |-> 0]
    /\ monCurrent = [s \in Services |-> 0]
    /\ monObs = [s \in Services |-> EmptyMap]
    /\ monDecision = [s \in Services |-> NoDecision]
    /\ monLog = [s \in Services |-> "Monitor started"]
    /\ applied = << >>
    /\ ledger = << >>
    /\ QueueOff

\* runScalingIteration returns: its locals are gone, the monitor waits
EndIteration(s) ==
    /\ monPc' = [monPc EXCEPT ![s] = "wait"]
    /\ monCurrent' = [monCurrent EXCEPT ![s] = 0]
    /\ monObs' = [monObs EXCEPT ![s] = EmptyMap]
    /\ monDecision' = [monDecision EXCEPT ![s] = NoDecision]

\* an unrecovered panic in a goroutine ends the whole process
Panic ==
    /\ proc' = "panicked"
    /\ monPc' = [s \in Services |-> "dead"]
    /\ monCurrent' = [s \in Services |-> 0]
    /\ monObs' = [s \in Services |-> EmptyMap]
    /\ monDecision' = [s \in Services |-> NoDecision]

\* the workload changes outside the daemon: containers exit, or an operator
\* scales the service by hand.  The daemon observes the workload only in
\* toolGetCurrentReplicas, so the changes made since the last read are taken
\* as one change just before the next read.
WorkloadChange(s, n) ==
    /\ proc = "running"
    /\ monPc[s] = "replicas"
    /\ n # replicas[s]
    /\ replicas' = [replicas EXCEPT ![s] = n]
    /\ UNCHANGED <<mcpVars, queueVars, logVars, proc, svcs, monPc, monIter, monCurrent, monObs,
                   monDecision, monLog, applied, ledger>>

\* mutant: a tick is served although the previous iteration has not returned
Tick_Reentrant(s) ==
    /\ proc = "running"
    /\ monPc[s] \in {"wait", "cpu", "queue"}
    /\ monIter[s] < MaxIter
    /\ monIter' = [monIter EXCEPT ![s] = @ + 1]
    /\ monPc' = [monPc EXCEPT ![s] = "replicas"]
    /\ UNCHANGED <<mcpVars, queueVars, logVars, proc, svcs, replicas, monCurrent, monObs,
                   monDecision, applied, ledger>>
    /\ monLog' = [monLog EXCEPT ![s] = "Iteration"]

\* mutant: a central scheduler that starts an iteration only while every
\* other monitor is idle
Tick_Serialized(s) ==
    /\ proc = "running"
    /\ monPc[s] = "wait"
    /\ \A t \in Services \ {s} : monPc[t] = "wait"
    /\ monIter[s] < MaxIter
    /\ monIter' = [monIter EXCEPT ![s] = @ + 1]
    /\ monPc' = [monPc EXCEPT ![s] = "replicas"]
    /\ UNCHANGED <<mcpVars, queueVars, logVars, proc, svcs, replicas, monCurrent, monObs,
                   monDecision, applied, ledger>>
    /\ monLog' = [monLog EXCEPT ![s] = "Iteration"]

\* monitorService: a tick arrives, iteration++, runScalingIteration starts
Tick(s) ==
    /\ proc = "running"
    /\ monPc[s] = "wait"
    /\ monIter[s] < MaxIter
    /\ monIter' = [monIter EXCEPT ![s] = @ + 1]
    /\ monPc' = [monPc EXCEPT ![s] = "replicas"]
    /\ UNCHANGED <<mcpVars, queueVars, logVars, proc, svcs, replicas, monCurrent, monObs,
                   monDecision, applied, ledger>>
    /\ monLog' = [monLog EXCEPT ![s] = "Iteration"]

\* runScalingIteration step 1: toolGetCurrentReplicas succeeds
GetCurrentReplicasOk(s) ==
    /\ proc = "running"
    /\ monPc[s] = "replicas"
    /\ monCurrent' = [monCurrent EXCEPT ![s] = replicas[s]]
    /\ monPc' = [monPc EXCEPT ![s] = "cpu"]
    /\ UNCHANGED <<mcpVars, queueVars, logVars, proc, svcs, replicas, monIter, monObs,
                   monDecision, applied, ledger>>
    /\ monLog' = [monLog EXCEPT ![s] = "Current replicas"]

\* mutant: the error is logged but the iteration goes on with a count of 0
GetCurrentReplicasErr_Continue(s) ==
    /\ proc = "running"
    /\ monPc[s] = "replicas"
    /\ monCurrent' = [monCurrent EXCEPT ![s] = 0]
    /\ monPc' = [monPc EXCEPT ![s] = "cpu"]
    /\ UNCHANGED <<mcpVars, queueVars, logVars, proc, svcs, replicas, monIter, monObs,
                   monDecision, applied, ledger>>
    /\ monLog' = [monLog EXCEPT ![s] = "ERROR: Failed to get current replicas"]

\* runScalingIteration step 1: toolGetCurrentReplicas fails, return
GetCurrentReplicasErr(s) ==
    /\ proc = "running"
    /\ monPc[s] = "replicas"
    /\ EndIteration(s)
    /\ UNCHANGED <<mcpVars, queueVars, logVars, proc, svcs, replicas, monIter, applied, ledger>>
    /\ monLog' = [monLog EXCEPT ![s] = "ERROR: Failed to get current replicas"]

\* toolGetMetrics: the per-container averages, keyed by container name
toolGetMetrics(s, sampled, v) ==
    IF sampled THEN (ContainerName[s] :> v) ELSE EmptyMap

\* runScalingIteration steps 2 and 3: toolGetMetrics succeeds and its map
\* is copied into observations
GetMetricsOk(s) ==
    /\ proc = "running"
    /\ monPc[s] = "cpu"
    /\ \E sampled \in BOOLEAN, v \in CpuValues :
         monObs' = [monObs EXCEPT ![s] = toolGetMetrics(s, sampled, v)]
    /\ monPc' = [monPc EXCEPT ![s] = "queue"]
    /\ UNCHANGED <<mcpVars, queueVars, logVars, proc, svcs, replicas, monIter, monCurrent,
                   monDecision, monLog, applied, ledger>>

\* runScalingIteration step 2: toolGetMetrics fails, return
GetMetricsErr(s) ==
    /\ proc = "running"
    /\ monPc[s] = "cpu"
    /\ EndIteration(s)
    /\ UNCHANGED <<mcpVars, queueVars, logVars, proc, svcs, replicas, monIter, applied, ledger>>
    /\ monLog' = [monLog EXCEPT ![s] = "ERROR: Failed to get CPU metrics"]

\* toolGetQueueMetrics: the result map of a successful collection
toolGetQueueMetrics(backlog) ==
    [k \in {"queue.backlog", "queue.lag", "queue.rate_in", "queue.rate_out"} |->
        IF k = "queue.backlog" THEN backlog ELSE 0]

\* for k, v := range queueMetrics { observations[k] = v }
MergeMaps(into, from) ==
    [k \in DOMAIN into \cup DOMAIN from |->
        IF k \in DOMAIN from THEN from[k] ELSE into[k]]

\* runScalingIteration step 4: no queue configured
SkipQueue(s) ==
    /\ proc = "running"
    /\ monPc[s] = "queue"
    /\ svcs[s].Queue = NilQueue
    /\ monPc' = [monPc EXCEPT ![s] = "decide"]
    /\ UNCHANGED <<mcpVars, queueVars, logVars, proc, svcs, replicas, monIter, monCurrent, monObs,
                   monDecision, applied, ledger>>
    /\ monLog' = [monLog EXCEPT ![s] = "Observations"]

\* runScalingIteration step 4: toolGetQueueMetrics succeeds, merge
GetQueueMetricsOk(s) ==
    /\ proc = "running"
    /\ monPc[s] = "queue"
    /\ svcs[s].Queue # NilQueue
    /\ \E backlog \in QueueBacklogs :
         monObs' = [monObs EXCEPT ![s] = MergeMaps(@, toolGetQueueMetrics(backlog))]
    /\ monPc' = [monPc EXCEPT ![s] = "decide"]
    /\ UNCHANGED <<mcpVars, queueVars, logVars, proc, svcs, replicas, monIter, monCurrent,
                   monDecision, applied, ledger>>
    /\ monLog' = [monLog EXCEPT ![s] = "Observations"]

\* runScalingIteration step 4: toolGetQueueMetrics fails, warning only
GetQueueMetricsErr(s) ==
    /\ proc = "running"
    /\ monPc[s] = "queue"
    /\ svcs[s].Queue # NilQueue
    /\ monPc' = [monPc EXCEPT ![s] = "decide"]
    /\ UNCHANGED <<mcpVars, queueVars, logVars, proc, svcs, replicas, monIter, monCurrent, monObs,
                   monDecision, applied, ledger>>
    /\ monLog' = [monLog EXCEPT ![s] = "Observations"]

\* runScalingIteration step 5: toolDecideScaleMulti is called directly and
\* its map is kept as returned (no JSON round trip)
Decide(s) ==
    /\ proc = "running"
    /\ monPc[s] = "decide"
    /\ LET r == toolDecideScaleMulti(monCurrent[s], svcs[s].MinReplicas,
                                     svcs[s].MaxReplicas, svcs[s].Rules,
                                     monObs[s])
       IN  IF r.err # "nil"
           THEN /\ EndIteration(s)
                /\ monLog' = [monLog EXCEPT ![s] = "ERROR: Failed to decide scaling"]
                /\ UNCHANGED <<mcpVars, queueVars, logVars, proc, svcs, replicas, monIter,
                               applied, ledger>>
           ELSE /\ monDecision' = [monDecision EXCEPT ![s] = r.ret]
                /\ monPc' = [monPc EXCEPT ![s] = "extract"]
                /\ UNCHANGED <<mcpVars, queueVars, logVars, proc, svcs, replicas, monIter,
                               monCurrent, monObs, monLog, applied, ledger>>

\* a single-value type assertion x.(T) succeeds iff the dynamic type is T
TypeAssertOk(x, t) == x.type = t

\* logDecisionJSONL: the entry appended to the decisions file
LedgerEntry(s, action, currentReplicas, targetReplicas, reason, observations, decision) ==
    [service |-> s, action |-> action, current_replicas |-> currentReplicas,
     target_replicas |-> targetReplicas, reason |-> reason,
     observations |-> observations,
     matched_rules |-> decision.matched_rules.val]

\* runScalingIteration from the extraction of the decision to its return:
\* action, target and reason are type-asserted out of the map (a failed
\* assertion panics), the scale command is run unless the action is hold,
\* and the decision is appended to the ledger
ExecuteDecision(s) ==
    /\ proc = "running"
    /\ monPc[s] = "extract"
    /\ LET d == monDecision[s] IN
       IF ~( /\ TypeAssertOk(d.action, "string")
             /\ TypeAssertOk(d.target_replicas, "float64")
             /\ TypeAssertOk(d.reason, "string") )
       THEN /\ Panic
            /\ UNCHANGED <<mcpVars, queueVars, logVars, svcs, replicas, monIter, monLog,
                           applied, ledger>>
       ELSE LET action == d.action.val
                targetReplicas == d.target_replicas.val
                reason == d.reason.val
            IN  /\ IF action # "hold"
                   THEN /\ applied' = Append(applied, [service |-> s, n |-> targetReplicas])
                        /\ \E ok \in BOOLEAN :
                             /\ replicas' = IF ok
                                            THEN [replicas EXCEPT ![s] = targetReplicas]
                                            ELSE replicas
                             /\ monLog' = [monLog EXCEPT ![s] =
                                             IF ok THEN "Scaled successfully"
                                             ELSE "ERROR: Scaling failed"]
                   ELSE /\ monLog' = [monLog EXCEPT ![s] = "Decision"]
                        /\ UNCHANGED <<applied, replicas>>
                /\ \E opened \in BOOLEAN :
                     ledger' = IF opened
                               THEN Append(ledger,
                                      LedgerEntry(s, action, monCurrent[s],
                                                  targetReplicas, reason,
                                                  monObs[s], d))
                               ELSE ledger
                /\ EndIteration(s)
                /\ UNCHANGED <<mcpVars, queueVars, logVars, proc, svcs, monIter>>


NextDaemon ==
    \E s \in Services :
        \/ \E n \in 0..MaxCurrent : WorkloadChange(s, n)
        \/ Tick(s)
        \/ GetCurrentReplicasOk(s)
        \/ GetCurrentReplicasErr(s)
        \/ GetMetricsOk(s)
        \/ GetMetricsErr(s)
        \/ SkipQueue(s)
        \/ GetQueueMetricsOk(s)
        \/ GetQueueMetricsErr(s)
        \/ Decide(s)
        \/ ExecuteDecision(s)

SpecDaemon == InitDaemon /\ [][NextDaemon]_vars

\* ------------------------------------------------------- daemon shutdown
\* daemonStop: `kill pid` sends SIGTERM to the daemon.  The daemon installs
\* no signal handler (daemonStart blocks in `select {}`), so the Go runtime
\* ends the process at once, wherever its monitors are.
daemonStop ==
    /\ proc = "running"
    /\ proc' = "terminated"
    /\ monPc' = [s \in Services |-> "dead"]
    /\ monCurrent' = [s \in Services |-> 0]
    /\ monObs' = [s \in Services |-> EmptyMap]
    /\ monDecision' = [s \in Services |-> NoDecision]
    /\ UNCHANGED <<mcpVars, queueVars, logVars, svcs, replicas, monIter, monLog, applied, ledger>>

NextShutdown ==
    \/ NextDaemon
    \/ daemonStop

SpecShutdown == InitDaemon /\ [][NextShutdown]_vars

\* ------------------------------------------------------ ledger writers
\* the record the n-th call of service s appends
NthEntry(s, n) ==
    LedgerEntry(s, "hold", n, n, "no scaling conditions met", EmptyMap,
                [matched_rules |-> Iface("[]string", << >>)])

\* json.Encoder.Encode: the object's bytes followed by a newline, handed to
\* the file in a single Write.  The object's bytes are kept as two runs, its
\* first half and its second half.
EncodeLine(entry) ==
    << [b |-> "{", of |-> entry], [b |-> "}", of |-> entry], [b |-> "\n"] >>

\* mutant: the file is opened without O_APPEND
OpenDecisionsFile_NoAppend == [append |-> FALSE, offset |-> 0]

\* os.OpenFile(..., O_CREATE|O_APPEND|O_WRONLY, 0644)
OpenDecisionsFile == [append |-> TRUE, offset |-> 0]

\* write(2) of buf on descriptor fd: with O_APPEND the offset is moved to
\* the end of the file and the bytes are written there as one operation;
\* without it they are written at the descriptor's own offset
WriteFile(file, fd, buf) ==
    IF fd.append
    THEN file \o buf
    ELSE LET end == fd.offset + Len(buf)
             n == IF Len(file) > end THEN Len(file) ELSE end
         IN  [i \in 1..n |->
                IF i > fd.offset /\ i <= end THEN buf[i - fd.offset]
                ELSE file[i]]

\* goroutines call logDecisionJSONL concurrently, each at the end of its
\* iterations
InitLedger ==
    /\ req = NoCall /\ eng = NoCall /\ res = NoCall
    /\ DaemonOff
    /\ QueueOff

\* logDecisionJSONL: the entry is built and the file is opened
LogOpenOk(s) ==
    /\ logCall[s].pc = "idle"
    /\ logCall[s].n < MaxIter
    /\ logCall' = [logCall EXCEPT ![s] =
                     [pc |-> "opened", n |-> @.n + 1, err |-> "nil",
                      entry |-> NthEntry(s, @.n + 1),
                      f |-> OpenDecisionsFile]]
    /\ UNCHANGED <<mcpVars, daemonVars, queueVars, decisionsFile>>

\* logDecisionJSONL: os.OpenFile fails, the error is logged, return
LogOpenErr(s) ==
    /\ logCall[s].pc = "idle"
    /\ logCall[s].n < MaxIter
    /\ logCall' = [logCall EXCEPT ![s] =
                     [pc |-> "idle", n |-> @.n + 1,
                      err |-> "ERROR: Failed to open decisions log"]]
    /\ UNCHANGED <<mcpVars, daemonVars, queueVars, decisionsFile>>

\* logDecisionJSONL: Encode writes the record, or fails and logs
LogEncode(s) ==
    /\ logCall[s].pc = "opened"
    /\ \E ok \in BOOLEAN :
         IF ok
         THEN /\ decisionsFile' = WriteFile(decisionsFile, logCall[s].f,
                                            EncodeLine(logCall[s].entry))
              /\ logCall' = [logCall EXCEPT ![s].pc = "written"]
         ELSE /\ decisionsFile' = decisionsFile
              /\ logCall' = [logCall EXCEPT
                               ![s].pc = "written",
                               ![s].err = "ERROR: Failed to write decision log"]
    /\ UNCHANGED <<mcpVars, daemonVars, queueVars>>

\* logDecisionJSONL returns: the deferred f.Close() runs
LogClose(s) ==
    /\ logCall[s].pc = "written"
    /\ logCall' = [logCall EXCEPT ![s] =
                     [pc |-> "idle", n |-> @.n, err |-> @.err]]
    /\ UNCHANGED <<mcpVars, daemonVars, queueVars, decisionsFile>>

NextLedger ==
    \E s \in Services :
        \/ LogOpenOk(s)
        \/ LogOpenErr(s)
        \/ LogEncode(s)
        \/ LogClose(s)

SpecLedger == InitLedger /\ [][NextLedger]_vars

\* --------------------------------------------------------------- explain
\* lines of /tmp/docktor-decisions.jsonl as explain reads them: decision
\* records with a short or a long (over 50 bytes) reason, and a line that is
\* not JSON
LedgerLines ==
    { [kind |-> "json", service |-> sv, action |-> "hold",
       current_replicas |-> 1, target_replicas |-> 1,
       reason |-> [text |-> "r", len |-> n]] :
      sv \in Services, n \in {10, 60} }
    \cup { [kind |-> "garbage"] }

\* the decisions file: its lines, or no file at all (os.Open fails)
LedgerFiles ==
    { [exists |-> TRUE, lines |-> ls] :
      ls \in UNION { [1..n -> LedgerLines] : n \in 0..MaxLedger } }
NoFile == [exists |-> FALSE, lines |-> << >>]

\* `docktor explain` after flag parsing: the file, --tail and --service
ExplainArgs ==
    [cmd : {"explain"},
     file : LedgerFiles \cup {NoFile},
     tail : 0..(MaxLedger + 1),
     service : {""} \cup Services]

\* json.Unmarshal(scanner.Bytes(), &d)
Unmarshal(line) ==
    IF line.kind = "json"
    THEN [err |-> "nil",
          d |-> [Service |-> line.service, Action |-> line.action,
                 CurrentReplicas |-> line.current_replicas,
                 TargetReplicas |-> line.target_replicas,
                 Reason |-> line.reason]]
    ELSE [err |-> "invalid character"]

\* mutant: the filter is dropped, every parsed line is kept
ScanDecisions_NoFilter(lines, serviceFilter) ==
    LET RECURSIVE Loop(_, _)
        Loop(i, decisions) ==
            IF i > Len(lines) THEN decisions
            ELSE LET u == Unmarshal(lines[i])
                 IN  IF u.err = "nil"
                     THEN Loop(i + 1, Append(decisions, u.d))
                     ELSE Loop(i + 1, decisions)
    IN  Loop(1, << >>)

\* runExplain's scan loop: lines that parse and pass the filter, in order
ScanDecisions(lines, serviceFilter) ==
    LET RECURSIVE Loop(_, _)
        Loop(i, decisions) ==
            IF i > Len(lines) THEN decisions
            ELSE LET u == Unmarshal(lines[i])
                 IN  IF /\ u.err = "nil"
                        /\ (serviceFilter = "" \/ u.d.Service = serviceFilter)
                     THEN Loop(i + 1, Append(decisions, u.d))
                     ELSE Loop(i + 1, decisions)
    IN  Loop(1, << >>)

\* one table row: service, action, FROM->TO and the reason cut to 47 bytes
\* plus "..." when longer than 50
ExplainRow(d) ==
    [service |-> d.Service, action |-> d.Action,
     replicaChange |-> <<d.CurrentReplicas, d.TargetReplicas>>,
     reason |-> IF d.Reason.len > 50
                THEN [text |-> d.Reason.text, len |-> 47, dots |-> TRUE]
                ELSE [text |-> d.Reason.text, len |-> d.Reason.len, dots |-> FALSE]]

\* mutant: off by one, one decision more than the tail is kept
ExplainStart_OffByOne(n, tail) == IF n > tail + 1 THEN n - tail - 1 ELSE 0

\* index of the first decision shown
ExplainStart(n, tail) == IF n > tail THEN n - tail ELSE 0

\* runExplain: what is printed
runExplain(file, tail, serviceFilter) ==
    IF ~file.exists
    THEN [exit |-> 1, stderr |-> "Error: Cannot open decision log"]
    ELSE LET decisions == ScanDecisions(file.lines, serviceFilter)
         IN  IF Len(decisions) = 0
             THEN [exit |-> 0, stdout |-> "No scaling decisions found."]
             ELSE LET start == ExplainStart(Len(decisions), tail)
                      shown == SubSeq(decisions, start + 1, Len(decisions))
                  IN  [exit |-> 0, stdout |-> "table",
                       rows |-> [i \in 1..Len(shown) |-> ExplainRow(shown[i])],
                       showing |-> Len(shown),
                       total |-> Len(shown) + start,
                       filteredBy |-> serviceFilter]

\* `docktor explain` is invoked with any file, tail and filter
InitExplain ==
    /\ req \in ExplainArgs
    /\ eng = NoCall
    /\ res = NoCall
    /\ DaemonOff
    /\ QueueOff

Explain ==
    /\ res = NoCall
    /\ res' = runExplain(req.file, req.tail, req.service)
    /\ UNCHANGED <<req, eng, daemonVars, queueVars, logVars>>

NextExplain ==
    Explain

SpecExplain == InitExplain /\ [][NextExplain]_vars

\* --------------------------------------------------------- package queue
\* a nil Provider / a nil error
NilProvider == [type |-> "nil"]
NilError == [type |-> "nil"]

QueueKinds == {"nats", "kafka"}

\* type QueueConfig struct, as read from docktor.yaml
QueueConfigs ==
    [Kind : QueueKinds, JetStream : BOOLEAN, Stream : {"", "orders"},
     Consumer : {"", "workers"}]

\* toolGetQueueMetrics / configValidate: QueueConfig converted to
\* queue.Config; the bool is formatted with %t
ToQueueConfig(queueCfg) ==
    [Kind |-> queueCfg.Kind,
     Attributes |-> [stream |-> queueCfg.Stream,
                     consumer |-> queueCfg.Consumer,
                     jetstream |-> IF queueCfg.JetStream THEN "true" ELSE "false"]]

\* NewNATSProvider: a provider not yet connected, or a validation error
NewNATSProvider(cfg) ==
    LET provider == [type |-> "NATSProvider",
                     stream |-> cfg.Attributes.stream,
                     consumer |-> cfg.Attributes.consumer,
                     jetstream |-> (cfg.Attributes.jetstream = "true"),
                     conn |-> "nil", js |-> "nil"]
    IN  IF ~provider.jetstream
        THEN [provider |-> NilProvider,
              err |-> [type |-> "errorString",
                       msg |-> "NATS provider requires JetStream (jetstream: true)"]]
        ELSE IF provider.stream = ""
        THEN [provider |-> NilProvider,
              err |-> [type |-> "errorString",
                       msg |-> "NATS provider requires 'stream' attribute"]]
        ELSE IF provider.consumer = ""
        THEN [provider |-> NilProvider,
              err |-> [type |-> "errorString",
                       msg |-> "NATS provider requires 'consumer' attribute"]]
        ELSE [provider |-> provider, err |-> NilError]

\* a factory of another plugin (README, "Adding a queue backend"): it
\* accepts every configuration
NewYourQueueProvider(cfg) ==
    [provider |-> [type |-> "YourQueueProvider", conn |-> "nil"],
     err |-> NilError]

Factories == {"NewNATSProvider", "NewYourQueueProvider"}

\* factory(cfg): the call of a registered factory value
CallFactory(factory, cfg) ==
    IF factory = "NewNATSProvider" THEN NewNATSProvider(cfg)
    ELSE NewYourQueueProvider(cfg)

\* mutant: a kind that is already registered keeps its first factory
RegisterFactory_KeepFirst(reg, kind, factory) ==
    IF kind \in DOMAIN reg THEN reg
    ELSE [k \in DOMAIN reg \cup {kind} |-> IF k = kind THEN factory ELSE reg[k]]

\* Register: registry[kind] = factory
RegisterFactory(reg, kind, factory) ==
    [k \in DOMAIN reg \cup {kind} |-> IF k = kind THEN factory ELSE reg[k]]

\* mutant: an unknown kind falls back to the NATS factory
NewProvider_FallbackNats(reg, cfg) ==
    IF cfg.Kind \notin DOMAIN reg
    THEN NewNATSProvider(cfg)
    ELSE CallFactory(reg[cfg.Kind], cfg)

\* NewProvider: the registered factory's result, or UnsupportedKindError
NewProvider(reg, cfg) ==
    IF cfg.Kind \notin DOMAIN reg
    THEN [provider |-> NilProvider,
          err |-> [type |-> "UnsupportedKindError", Kind |-> cfg.Kind]]
    ELSE CallFactory(reg[cfg.Kind], cfg)

\* ------------------------------------------------------- NATS provider
\* the counters of nats.StreamInfo / nats.ConsumerInfo are Go uint64; the
\* model keeps the wraparound of unsigned subtraction with a narrower word
UintModulus == 2^16

\* a - b in unsigned arithmetic
UintSub(a, b) == (a - b + UintModulus) % UintModulus

\* values the NATS server reports for Msgs and AckFloor.Stream
CounterSamples == {0, 100, 350, 500}

\* js.StreamInfo: the stream's state, or an error
StreamInfos ==
    { [err |-> "nil", Msgs |-> m, LastSeq |-> 500] : m \in CounterSamples }
    \cup { [err |-> "nats: timeout"] }

\* js.ConsumerInfo: the consumer's state, or an error
ConsumerInfos ==
    { [err |-> "nil", AckFloor |-> a, Delivered |-> 350, NumPending |-> 2] :
      a \in CounterSamples }
    \cup { [err |-> "nats: timeout"] }

\* svc.MetricsWindow, seconds
WindowSecs == {1, 5}

\* float64(delta) / float64(windowSec), kept as a fraction
Rate(delta, windowSec) == [num |-> delta, den |-> windowSec]

\* NATSProvider.GetMetrics on provider n, given what the server answers to
\* the two stream samples and the two consumer samples
NatsGetMetrics(n, windowSec, streamInfo1, consumerInfo1, streamInfo2, consumerInfo2) ==
    IF n.js = "nil"
    THEN [metrics |-> [type |-> "nil"], err |-> "not connected to NATS"]
    ELSE IF streamInfo1.err # "nil"
    THEN [metrics |-> [type |-> "nil"], err |-> "failed to get stream info"]
    ELSE IF consumerInfo1.err # "nil"
    THEN [metrics |-> [type |-> "nil"], err |-> "failed to get consumer info"]
    ELSE IF streamInfo2.err # "nil"
    THEN [metrics |-> [type |-> "nil"],
          err |-> "failed to get stream info (second sample)"]
    ELSE IF consumerInfo2.err # "nil"
    THEN [metrics |-> [type |-> "nil"],
          err |-> "failed to get consumer info (second sample)"]
    ELSE LET lag == streamInfo2.LastSeq - consumerInfo2.Delivered
             msgDelta == UintSub(streamInfo2.Msgs, streamInfo1.Msgs)
             ackDelta == UintSub(consumerInfo2.AckFloor, consumerInfo1.AckFloor)
         IN  [metrics |-> [type |-> "Metrics",
                           Backlog |-> consumerInfo2.NumPending,
                           Lag |-> IF lag < 0 THEN 0 ELSE lag,
                           RateIn |-> Rate(msgDelta, windowSec),
                           RateOut |-> Rate(ackDelta, windowSec)],
              err |-> "nil"]

\* a connected provider, as Connect leaves it
ConnectedProvider ==
    [type |-> "NATSProvider", stream |-> "orders", consumer |-> "workers",
     jetstream |-> TRUE, conn |-> "open", js |-> "ctx"]

\* GetMetrics is called on a connected provider; the server may answer the
\* four requests with any counters or an error
GetMetricsArgs ==
    [op : {"GetMetrics"}, windowSec : WindowSecs,
     streamInfo1 : StreamInfos, consumerInfo1 : ConsumerInfos,
     streamInfo2 : StreamInfos, consumerInfo2 : ConsumerInfos]

InitRate ==
    /\ req \in GetMetricsArgs
    /\ eng = NoCall
    /\ res = NoCall
    /\ DaemonOff
    /\ QueueOff

GetMetricsCall ==
    /\ res = NoCall
    /\ res' = NatsGetMetrics(ConnectedProvider, req.windowSec,
                             req.streamInfo1, req.consumerInfo1,
                             req.streamInfo2, req.consumerInfo2)
    /\ UNCHANGED <<req, eng, daemonVars, queueVars, logVars>>

NextRate ==
    GetMetricsCall

SpecRate == InitRate /\ [][NextRate]_vars

\* the package's registry variable is initialised to an empty map; init()
\* and plugins then call Register, and callers NewProvider, in any order
InitRegistry ==
    /\ req = NoCall /\ eng = NoCall /\ res = NoCall
    /\ DaemonOff
    /\ registry = [k \in {} |-> "none"]
    /\ heap = << >>
    /\ qcall = [s \in Services |-> IdleCall]
    /\ decisionsFile = << >>
    /\ logCall = [s \in Services |-> NotLogging]

Register(kind, factory) ==
    /\ registry' = RegisterFactory(registry, kind, factory)
    /\ req' = [op |-> "Register", kind |-> kind, factory |-> factory]
    /\ res' = NoCall
    /\ UNCHANGED <<eng, daemonVars, heap, qcall, logVars>>

NewProviderCall(cfg) ==
    /\ req' = [op |-> "NewProvider", cfg |-> cfg]
    /\ res' = NewProvider(registry, cfg)
    /\ UNCHANGED <<eng, daemonVars, queueVars, logVars>>

NextRegistry ==
    \/ \E kind \in QueueKinds, factory \in Factories : Register(kind, factory)
    \/ \E queueCfg \in QueueConfigs : NewProviderCall(ToQueueConfig(queueCfg))

SpecRegistry == InitRegistry /\ [][NextRegistry]_vars

\* --------------------------------------------------- queue collection
\* NATSProvider.Connect: nats.Connect may fail (conn stays nil), the
\* JetStream context may fail (the connection is closed, the pointer kept)
ConnectOutcomes == {"ok", "dial failed", "no jetstream"}
NatsConnect(n, outcome) ==
    IF outcome = "ok"
    THEN [n |-> [n EXCEPT !.conn = "open", !.js = "ctx"], err |-> "nil"]
    ELSE IF outcome = "dial failed"
    THEN [n |-> [n EXCEPT !.conn = "nil"], err |-> "failed to connect to NATS"]
    ELSE [n |-> [n EXCEPT !.conn = "closed", !.js = "nil"],
          err |-> "failed to get JetStream context"]

\* NATSProvider.Close
NatsClose(n) ==
    IF n.conn # "nil" THEN [n EXCEPT !.conn = "nil", !.js = "nil"] ELSE n

\* mutant: Close is reached only on the success path
CloseOnReturn_SuccessOnly(n, err) == IF err = "nil" THEN NatsClose(n) ELSE n

\* `defer provider.Close()` in toolGetQueueMetrics and the provider.Close()
\* that ends configValidate's queue block: run on every path, whatever err
CloseOnReturn(n, err) == NatsClose(n)

\* mutant: one provider per process is kept and handed to every caller
AllocProvider_Shared(h, provider) ==
    IF Len(h) > 0 THEN [heap |-> h, addr |-> 1]
    ELSE [heap |-> Append(h, provider), addr |-> Len(h) + 1]

\* &NATSProvider{...}: a new object at a fresh address
AllocProvider(h, provider) ==
    [heap |-> Append(h, provider), addr |-> Len(h) + 1]

\* what the server answers during one collection: all four samples, or an
\* error at the first or at the last of them
CollectSamples ==
    LET si == [err |-> "nil", Msgs |-> 100, LastSeq |-> 500]
        ci == [err |-> "nil", AckFloor |-> 100, Delivered |-> 350, NumPending |-> 2]
        bad == [err |-> "nats: timeout"]
    IN  { <<si, ci, si, ci>>, <<bad, ci, si, ci>>, <<si, ci, si, bad>> }

\* the two users of a provider
QueueUses == {"toolGetQueueMetrics", "configValidate"}

\* the monitors collect (and the pre-flight check validates) with the
\* factories registered by init()
InitQueue ==
    /\ req = NoCall /\ eng = NoCall /\ res = NoCall
    /\ DaemonOff
    /\ QueueOff

\* the use returns: its provider variable goes out of scope
QueueReturn(c, ret) ==
    qcall' = [qcall EXCEPT ![c] = [pc |-> "idle", n |-> @.n, prov |-> 0, ret |-> ret]]

\* toolGetQueueMetrics / configValidate: queue.NewProvider(cfg)
QueueNewProvider(c) ==
    /\ qcall[c].pc = "idle"
    /\ qcall[c].n < MaxIter
    /\ \E use \in QueueUses, queueCfg \in QueueConfigs :
         LET r == NewProvider(registry, ToQueueConfig(queueCfg))
         IN  IF r.err # NilError
             THEN /\ qcall' = [qcall EXCEPT ![c] =
                                 [pc |-> "idle", n |-> @.n + 1, prov |-> 0,
                                  ret |-> "failed to create queue provider"]]
                  /\ heap' = heap
             ELSE LET a == AllocProvider(heap, r.provider)
                  IN  /\ heap' = a.heap
                      /\ qcall' = [qcall EXCEPT ![c] =
                                     [pc |-> "connect", n |-> @.n + 1,
                                      prov |-> a.addr, use |-> use,
                                      ret |-> "none"]]
    /\ UNCHANGED <<mcpVars, daemonVars, registry, logVars>>

\* provider.Connect(); on failure the use ends
QueueConnect(c) ==
    /\ qcall[c].pc = "connect"
    /\ \E outcome \in ConnectOutcomes :
         LET r == NatsConnect(heap[qcall[c].prov], outcome)
         IN  IF r.err # "nil"
             THEN /\ heap' = [heap EXCEPT ![qcall[c].prov] = CloseOnReturn(r.n, r.err)]
                  /\ QueueReturn(c, "failed to connect to queue")
             ELSE /\ heap' = [heap EXCEPT ![qcall[c].prov] = r.n]
                  /\ qcall' = [qcall EXCEPT ![c].pc = "metrics"]
    /\ UNCHANGED <<mcpVars, daemonVars, registry, logVars>>

\* provider.GetMetrics(windowSec), then the use ends with the metrics or
\* with the error
QueueGetMetrics(c) ==
    /\ qcall[c].pc = "metrics"
    /\ \E smp \in CollectSamples :
         LET r == NatsGetMetrics(heap[qcall[c].prov], 5,
                                 smp[1], smp[2], smp[3], smp[4])
         IN  /\ heap' = [heap EXCEPT ![qcall[c].prov] = CloseOnReturn(@, r.err)]
             /\ QueueReturn(c, IF r.err # "nil"
                               THEN "failed to get queue metrics"
                               ELSE "ok")
    /\ UNCHANGED <<mcpVars, daemonVars, registry, logVars>>

NextQueue ==
    \E c \in Services :
        \/ QueueNewProvider(c)
        \/ QueueConnect(c)
        \/ QueueGetMetrics(c)

SpecQueue == InitQueue /\ [][NextQueue]_vars

\* --------------------------------------------------------------- helpers
\* the call has been answered with a decision
Decided == res # NoCall /\ "content" \in DOMAIN res
Decision == res.content
Min2(a, b) == IF a < b THEN a ELSE b
Max2(a, b) == IF a > b THEN a ELSE b

\* the comparison a condition states, read on an observation set
\* (a metric that was not observed satisfies no comparison)
ComparisonHolds(observations, c) ==
    /\ c.Metric \in DOMAIN observations
    /\ LET v == observations[c.Metric]
           t == c.Value
       IN  \/ c.Op = ">" /\ t < v
           \/ c.Op = ">=" /\ ~(v < t)
           \/ c.Op = "<" /\ v < t
           \/ c.Op = "<=" /\ ~(t < v)
           \/ c.Op = "==" /\ v = t
           \/ c.Op = "!=" /\ (v < t \/ t < v)

SomeUpHolds ==
    \E i \in 1..Len(req.rules.ScaleUpWhen) :
        ComparisonHolds(req.observations, req.rules.ScaleUpWhen[i])
AllDownHold ==
    /\ Len(req.rules.ScaleDownWhen) > 0
    /\ \A i \in 1..Len(req.rules.ScaleDownWhen) :
        ComparisonHolds(req.observations, req.rules.ScaleDownWhen[i])

\* the verdicts toolDecideScaleMulti computed for the call
ScaleUpVerdict == Len(eng.scaleUpMatches) > 0
ScaleDownVerdict == eng.allScaleDownMatch

\* ------------------------------------------------------------------ C1
\* C1 (as claimed): every decision of the engine, for any current replica
\* count, has min_replicas <= target_replicas <= max_replicas.
C1_TargetWithinBounds ==
    Decided =>
        /\ req.min_replicas <= Decision.target_replicas
        /\ Decision.target_replicas <= req.max_replicas

\* ------------------------------------------------------------------ C2
\* C2: when min <= current <= max, the decision's target satisfies
\* min <= target <= max, for all rules and observation sets.
C2_TargetWithinBoundsFromWithin ==
    ( /\ Decided
      /\ req.min_replicas <= req.current_replicas
      /\ req.current_replicas <= req.max_replicas )
    => /\ req.min_replicas <= Decision.target_replicas
       /\ Decision.target_replicas <= req.max_replicas

\* a scale-up from within the bounds that the cap at max cut short
C2_Witness ==
    /\ Decided
    /\ req.min_replicas <= req.current_replicas
    /\ req.current_replicas < req.max_replicas
    /\ req.current_replicas + 2 > req.max_replicas
    /\ Decision.action = "scale_up"
    /\ Decision.target_replicas = req.max_replicas

\* ------------------------------------------------------------------ C3
\* C3 (as claimed): every apply-scale command of the daemon for a service
\* (docker compose --scale service=N) has min_replicas <= N <= max_replicas,
\* whatever replica count the iteration read.  N is the target_replicas of
\* the iteration's decision whenever its action is not hold: the property is
\* stated on the commands run and on the command each iteration has decided.
WithinServiceBounds(s, n) ==
    svcs[s].MinReplicas <= n /\ n <= svcs[s].MaxReplicas
DaemonNeverApplies ==
    /\ applied = << >>
    /\ ledger = << >>

\* ------------------------------------------------------------------ C4
\* C4: every hold decision has target_replicas = current_replicas.
C4_HoldKeepsCurrent ==
    (Decided /\ Decision.action = "hold")
    => /\ Decision.target_replicas = Decision.current_replicas
       /\ Decision.target_replicas = req.current_replicas

\* a hold that was a matched scale-up converted at the ceiling
C4_Witness ==
    /\ Decided
    /\ Decision.action = "hold"
    /\ SomeUpHolds

\* ------------------------------------------------------------------ C5
\* C5: the scale-up verdict is true iff at least one scale_up_when
\* comparison holds on the observations (OR); the scale-down verdict is true
\* iff scale_down_when is non-empty and every one of its comparisons holds
\* (AND); an empty scale_down_when never yields a scale-down.
C5_Verdicts ==
    (res # NoCall) =>
        /\ ScaleUpVerdict <=> SomeUpHolds
        /\ ScaleDownVerdict <=> AllDownHold
        /\ Len(req.rules.ScaleDownWhen) = 0
             => ~ScaleDownVerdict /\ Decision.action # "scale_down"

\* a decision with an empty scale_down_when, and none of scale_up_when holding
C5_Witness ==
    /\ res # NoCall
    /\ Len(req.rules.ScaleDownWhen) = 0
    /\ Len(req.rules.ScaleUpWhen) > 0
    /\ ~SomeUpHolds
    /\ ~ScaleDownVerdict

\* ------------------------------------------------------------------ C6
\* C6: a condition whose metric is absent from the observations is reported
\* as not matching and raises no error: the call is answered with a decision,
\* no match is recorded for the absent metric, and an absent metric in
\* scale_down_when makes the scale-down verdict false.
AbsentIn(conds) ==
    { i \in 1..Len(conds) : conds[i].Metric \notin DOMAIN req.observations }
NoMatchFor(matches, metric) ==
    \A j \in 1..Len(matches) : matches[j][1] # metric
C6_AbsentMetricNoMatch ==
    (res # NoCall) =>
        /\ Decided
        /\ res.isError = FALSE
        /\ \A i \in AbsentIn(req.rules.ScaleUpWhen) :
             NoMatchFor(eng.scaleUpMatches, req.rules.ScaleUpWhen[i].Metric)
        /\ \A i \in AbsentIn(req.rules.ScaleDownWhen) :
             NoMatchFor(eng.scaleDownMatches, req.rules.ScaleDownWhen[i].Metric)
        /\ AbsentIn(req.rules.ScaleDownWhen) # {}
             => ~ScaleDownVerdict /\ Decision.action # "scale_down"
        /\ (AbsentIn(req.rules.ScaleUpWhen) = DOMAIN req.rules.ScaleUpWhen)
             => ~ScaleUpVerdict

\* an answered call whose scale_down_when names an absent metric in a
\* comparison that the zero value would satisfy
C6_Witness ==
    /\ Decided
    /\ \E i \in AbsentIn(req.rules.ScaleDownWhen) :
         Compare(0, req.rules.ScaleDownWhen[i].Op,
                 req.rules.ScaleDownWhen[i].Value)
    /\ Decision.action = "hold"

\* ------------------------------------------------------------------ C7
\* C7: whenever at least one scale_up_when condition matches, the action is
\* never scale_down, even if every scale_down_when condition matches too.
C7_ScaleUpPrecedence ==
    (Decided /\ SomeUpHolds) => Decision.action # "scale_down"

\* both lists match, the service is below its ceiling, the action is scale_up
C7_Witness ==
    /\ Decided
    /\ SomeUpHolds
    /\ AllDownHold
    /\ req.min_replicas < req.current_replicas
    /\ Decision.action = "scale_up"

\* ------------------------------------------------------------------ C8
\* C8: when the scale-up verdict is true, target = min(current + 2, max).
C8_ScaleUpTargetValue ==
    (Decided /\ SomeUpHolds)
    => Decision.target_replicas =
         Min2(req.current_replicas + 2, req.max_replicas)

\* a scale-up by the full step of 2
C8_Witness ==
    /\ Decided
    /\ SomeUpHolds
    /\ Decision.action = "scale_up"
    /\ Decision.target_replicas = req.current_replicas + 2

\* ------------------------------------------------------------------ C9
\* C9: when the scale-up verdict is false and the scale-down verdict is
\* true, target = max(current - 1, min).
C9_ScaleDownTargetValue ==
    (Decided /\ ~SomeUpHolds /\ AllDownHold)
    => Decision.target_replicas =
         Max2(req.current_replicas - 1, req.min_replicas)

\* a scale-down verdict at the floor: the target stays at min_replicas
C9_Witness ==
    /\ Decided
    /\ ~SomeUpHolds
    /\ AllDownHold
    /\ req.current_replicas = req.min_replicas
    /\ Decision.target_replicas = req.min_replicas

\* ----------------------------------------------------------------- C10
\* C10: at current = max with a matching scale-up condition the action is
\* hold; at current = min with the scale-down verdict (and no scale-up match)
\* the action is hold; an action other than hold has target # current.
C10_BoundaryHold ==
    Decided =>
        /\ (req.current_replicas = req.max_replicas /\ SomeUpHolds)
             => Decision.action = "hold"
        /\ (req.current_replicas = req.min_replicas /\ ~SomeUpHolds /\ AllDownHold)
             => Decision.action = "hold"
        /\ Decision.action # "hold"
             => Decision.target_replicas # req.current_replicas

\* a matching scale-up condition at the ceiling
C10_Witness ==
    /\ Decided
    /\ req.current_replicas = req.max_replicas
    /\ SomeUpHolds
    /\ Decision.action = "hold"

\* ----------------------------------------------------------------- C11
\* C11: when neither verdict is true (no scale_up_when condition matches and
\* scale_down_when is empty or has a non-matching condition) the decision is
\* hold, target = current, reason "no scaling conditions met" and an empty
\* matched-conditions list.
C11_NoVerdictHolds ==
    (Decided /\ ~SomeUpHolds /\ ~AllDownHold)
    => /\ Decision.action = "hold"
       /\ Decision.target_replicas = req.current_replicas
       /\ Decision.reason = [kind |-> "no scaling conditions met"]
       /\ Decision.matched_rules = << >>

\* no verdict although one of two scale_down_when conditions matched
C11_Witness ==
    /\ Decided
    /\ ~SomeUpHolds
    /\ Len(req.rules.ScaleDownWhen) = 2
    /\ Len(eng.scaleDownMatches) = 1
    /\ Decision.action = "hold"

\* ----------------------------------------------------------------- C13
\* the matched conditions of a list, named by metric, observed value,
\* operator and threshold, in list order
RECURSIVE ExpectedMatches(_)
ExpectedMatches(conds) ==
    IF conds = << >> THEN << >>
    ELSE LET c == Head(conds) IN
         IF ComparisonHolds(req.observations, c)
         THEN << <<c.Metric, req.observations[c.Metric], c.Op, c.Value>> >>
                \o ExpectedMatches(Tail(conds))
         ELSE ExpectedMatches(Tail(conds))

\* the matched conditions joined by the separator
ExpectedReason(conds, sep) ==
    [kind |-> "joined",
     sep |-> IF Len(ExpectedMatches(conds)) > 1 THEN sep ELSE "",
     parts |-> ExpectedMatches(conds)]

\* C13 (as claimed): whenever a verdict is true the reason names every
\* matched condition in list order, joined by " OR " (scale-up) or " AND "
\* (scale-down), also when the action is downgraded to hold.
C13_ReasonNamesMatches ==
    Decided =>
        /\ SomeUpHolds
             => Decision.reason = ExpectedReason(req.rules.ScaleUpWhen, " OR ")
        /\ (~SomeUpHolds /\ AllDownHold)
             => Decision.reason = ExpectedReason(req.rules.ScaleDownWhen, " AND ")

\* C13 (amended): a scale_up or scale_down decision's reason names every
\* matched condition in list order, joined by " OR " or " AND "; a decision
\* downgraded to hold has the reason "already at target replicas (current)"
\* and lists the matched conditions in matched_rules only.
C13_ReasonNamesMatchesUnlessHold ==
    Decided =>
        /\ Decision.action = "scale_up"
             => /\ SomeUpHolds
                /\ Decision.reason = ExpectedReason(req.rules.ScaleUpWhen, " OR ")
        /\ Decision.action = "scale_down"
             => /\ ~SomeUpHolds /\ AllDownHold
                /\ Decision.reason = ExpectedReason(req.rules.ScaleDownWhen, " AND ")
        /\ (Decision.action = "hold" /\ (SomeUpHolds \/ AllDownHold))
             => /\ Decision.reason = [kind |-> "already at target replicas",
                                      n |-> req.current_replicas]
                /\ Decision.matched_rules =
                     IF SomeUpHolds THEN ExpectedMatches(req.rules.ScaleUpWhen)
                     ELSE ExpectedMatches(req.rules.ScaleDownWhen)

\* a scale_up decided on two matching conditions
C13_Witness ==
    /\ Decided
    /\ Decision.action = "scale_up"
    /\ Len(ExpectedMatches(req.rules.ScaleUpWhen)) = 2
    /\ Decision.reason.sep = " OR "

\* --------------------------------------------------------- daemon helpers
\* the step ends monitor s's stay at the extraction of its decision
LeavesExtract(s) == monPc[s] = "extract" /\ monPc'[s] # "extract"

\* the step appends exactly one ledger record, for service s
AppendsRecordFor(s) ==
    /\ Len(ledger') = Len(ledger) + 1
    /\ SubSeq(ledger', 1, Len(ledger)) = ledger
    /\ ledger'[Len(ledger')].service = s

\* ----------------------------------------------------------------- C14
\* C14 (as claimed): every iteration that reaches a decision appends exactly
\* one decision record for its service to the ledger, whatever the action,
\* and the monitor keeps running afterwards.
C14_DecisionIsRecorded ==
    [][ \A s \in Services :
          LeavesExtract(s)
          => /\ AppendsRecordFor(s)
             /\ proc' = "running"
             /\ monPc'[s] = "wait" ]_vars

\* ----------------------------------------------------------------- C15
\* C15 (as claimed): in every iteration the apply-scale command is run iff
\* the decision's action is not hold, once, for the iteration's service and
\* with the decision's target_replicas; a hold runs no command.
C15_ApplyIffNotHold ==
    [][ \A s \in Services :
          IF LeavesExtract(s) /\ monDecision[s].action.val # "hold"
          THEN applied' = Append(applied,
                                 [service |-> s,
                                  n |-> monDecision[s].target_replicas.val])
          ELSE \A i \in 1..Len(applied') :
                 applied'[i].service = s => i <= Len(applied) /\ applied[i] = applied'[i]
      ]_vars

QueueFailed(s) ==
    /\ svcs[s].Queue # NilQueue
    /\ monPc[s] \in {"decide", "extract"}
    /\ "queue.backlog" \notin DOMAIN monObs[s]

\* C17 (as claimed): after a failed queue collection the observation map
\* holds the CPU observations only and no queue.* key, the decision engine is
\* run on it, and the iteration goes on to apply and record as usual.
C17_QueueFailureNonFatal ==
    /\ [](\A s \in Services :
            QueueFailed(s) => DOMAIN monObs[s] \subseteq {ContainerName[s]})
    /\ [][ \A s \in Services :
             /\ (QueueFailed(s) /\ monPc[s] = "decide" /\ monPc'[s] # "decide")
                  => /\ monPc'[s] = "extract"
                     /\ monDecision'[s].current_replicas.val = monCurrent[s]
                     /\ monDecision'[s].matched_rules.val = << >>
             /\ (QueueFailed(s) /\ LeavesExtract(s))
                  => /\ AppendsRecordFor(s)
                     /\ ledger'[Len(ledger')].observations = monObs[s]
                     /\ monPc'[s] = "wait" ]_vars

\* ----------------------------------------------------------------- C18
\* C18: a failure to read current_replicas aborts only the current
\* iteration: no metric is collected, no command is run and no decision is
\* produced or recorded, the monitor goes back to waiting for its tick with
\* nothing kept from the failed iteration, the other monitors are untouched,
\* and the next tick can start a new iteration.
ReplicaReadFails(s) ==
    /\ monPc[s] = "replicas"
    /\ monLog'[s] = "ERROR: Failed to get current replicas"
C18_ReplicaReadFailureAbortsIteration ==
    /\ [][ \A s \in Services :
             ReplicaReadFails(s)
             => /\ monPc'[s] = "wait"
                /\ proc' = "running"
                /\ monCurrent'[s] = 0
                /\ monObs'[s] = EmptyMap
                /\ monDecision'[s] = NoDecision
                /\ applied' = applied
                /\ ledger' = ledger
                /\ replicas' = replicas
                /\ monIter' = monIter
                /\ \A t \in Services \ {s} :
                     /\ monPc'[t] = monPc[t]
                     /\ monObs'[t] = monObs[t]
                     /\ monDecision'[t] = monDecision[t] ]_vars
    /\ [](\A s \in Services :
            ( /\ proc = "running"
              /\ monLog[s] = "ERROR: Failed to get current replicas"
              /\ monIter[s] < MaxIter )
            => monPc[s] = "wait" /\ ENABLED Tick(s))

\* a monitor waiting for its next tick after a failed read
C18_Witness ==
    \E s \in Services :
        /\ proc = "running"
        /\ monPc[s] = "wait"
        /\ monIter[s] = 1
        /\ monLog[s] = "ERROR: Failed to get current replicas"

\* ----------------------------------------------------------------- C19
\* monitor s is inside a blocking call of its iteration
Blocked(s) == monPc[s] \in {"replicas", "cpu", "queue", "extract"}

\* the next step of monitor t's loop can be taken
CanStep(t) ==
    CASE monPc[t] = "wait" -> monIter[t] < MaxIter => ENABLED Tick(t)
      [] monPc[t] = "replicas" -> ENABLED GetCurrentReplicasOk(t)
      [] monPc[t] = "cpu" -> ENABLED GetMetricsOk(t)
      [] monPc[t] = "queue" -> ENABLED (SkipQueue(t) \/ GetQueueMetricsOk(t))
      [] monPc[t] = "decide" -> ENABLED Decide(t)
      [] monPc[t] = "extract" -> ENABLED ExecuteDecision(t)
      [] OTHER -> FALSE

\* C19: while one monitor is blocked in its iteration, every other monitor
\* can start an iteration on its tick and take each step of it: no step of a
\* monitor waits for another monitor.
C19_MonitorsIndependent ==
    \A s \in Services : \A t \in Services \ {s} :
        (proc = "running" /\ Blocked(s)) => CanStep(t)

\* one monitor still in the queue collection of its first iteration while
\* the other is already deciding in its second
C19_Witness ==
    \E s \in Services : \E t \in Services \ {s} :
        /\ proc = "running"
        /\ monPc[s] = "queue" /\ monIter[s] = 1
        /\ monPc[t] = "decide" /\ monIter[t] = 2

\* ----------------------------------------------------------------- C20
\* C20 (as claimed): a failure inside one monitor's iteration never stops
\* another monitor: a monitor stops running only from a failure at its own
\* position, so a monitor that is waiting or collecting keeps running.
C20_FailureStaysInMonitor ==
    [][ \A t \in Services :
          (monPc[t] # "dead" /\ monPc'[t] = "dead") => monPc[t] = "extract" ]_vars

\* ----------------------------------------------------------------- C26
\* C26 (as claimed): in every iteration whose CPU collection returned a
\* sample for a container of the service, the observations handed to the
\* decision engine hold the service's average CPU under the name the CPU
\* conditions use (cpu.avg), and a CPU scale-up condition whose comparison
\* holds on that average is reported as matched.
CpuSampled(s) ==
    /\ monPc[s] \in {"queue", "decide", "extract"}
    /\ ContainerName[s] \in DOMAIN monObs[s]
C26_CpuAverageAvailable ==
    \A s \in Services :
        CpuSampled(s)
        => /\ "cpu.avg" \in DOMAIN monObs[s]
           /\ MapGet(monObs[s], "cpu.avg") = monObs[s][ContainerName[s]]
           /\ ( /\ monPc[s] = "extract"
                /\ \E i \in 1..Len(svcs[s].Rules.ScaleUpWhen) :
                     LET c == svcs[s].Rules.ScaleUpWhen[i]
                     IN  /\ c.Metric = "cpu.avg"
                         /\ Compare(monObs[s][ContainerName[s]], c.Op, c.Value) )
              => monDecision[s].matched_rules.val # << >>

\* ----------------------------------------------------------------- C27
\* C27 (as claimed): progressive scaling.  In an iteration that read a
\* replica count within [min, max] equal to the workload's and decided
\* scale_up or scale_down, the command for the decided target (current + 2
\* capped at max, current - 1 floored at min) is run, a successful command
\* leaves the workload at that target, and the monitor goes on to its next
\* iteration.
C27_ProgressiveScaling ==
    [][ \A s \in Services :
          ( /\ LeavesExtract(s)
            /\ monCurrent[s] = replicas[s]
            /\ WithinServiceBounds(s, monCurrent[s])
            /\ monDecision[s].action.val # "hold" )
          => /\ monDecision[s].target_replicas.val =
                  IF monDecision[s].action.val = "scale_up"
                  THEN Min2(monCurrent[s] + 2, svcs[s].MaxReplicas)
                  ELSE Max2(monCurrent[s] - 1, svcs[s].MinReplicas)
             /\ applied' = Append(applied,
                                  [service |-> s,
                                   n |-> monDecision[s].target_replicas.val])
             /\ monLog'[s] = "Scaled successfully"
                  => replicas'[s] = monDecision[s].target_replicas.val
             /\ proc' = "running"
             /\ monPc'[s] = "wait" ]_vars

\* ----------------------------------------------------------------- C28
\* C28 (as claimed): for every decision, a scale_up has
\* current < target <= current + 2 and a scale_down has
\* current - 1 <= target < current.
C28_StepBounded ==
    Decided
    => LET cur == req.current_replicas
           tgt == Decision.target_replicas
       IN  /\ Decision.action = "scale_up" => cur < tgt /\ tgt <= cur + 2
           /\ Decision.action = "scale_down" => cur - 1 <= tgt /\ tgt < cur

\* ----------------------------------------------------------------- C29
\* the order of the steps of one iteration
StepOrder ==
    { <<"wait", "replicas">>, <<"replicas", "cpu">>, <<"cpu", "queue">>,
      <<"queue", "decide">>, <<"decide", "extract">> }

\* the points at which runScalingIteration returns
Returns ==
    { <<"replicas", "wait">>, <<"cpu", "wait">>, <<"decide", "wait">>,
      <<"extract", "wait">> }

C22_ShutdownDrainsIterations ==
    [][ (proc = "running" /\ proc' = "terminated")
        => \A s \in Services : monPc[s] = "wait" ]_vars

\* ----------------------------------------------------------------- C25
\* the ledger's records that match the filter, as a specification: the
\* parsable lines of the file whose service passes the filter, in file order
MatchingRecords ==
    SelectSeq(req.file.lines,
              LAMBDA l : /\ l.kind = "json"
                         /\ (req.service = "" \/ l.service = req.service))

\* explain has answered a call on an existing file
Explained == res # NoCall /\ req.cmd = "explain" /\ req.file.exists

\* row i of the table shows record r
Shows(row, r) ==
    /\ row.service = r.service
    /\ row.action = r.action
    /\ row.replicaChange = <<r.current_replicas, r.target_replicas>>
    /\ row.reason.text = r.reason.text
    /\ row.reason.len = (IF r.reason.len > 50 THEN 47 ELSE r.reason.len)
    /\ row.reason.dots = (r.reason.len > 50)

\* the rows printed, none when the table is replaced by the message
RowsOf(out) == IF "rows" \in DOMAIN out THEN out.rows ELSE << >>

\* the table shows the last min(N, k) matching records in ledger order
ShowsLastMatching ==
    LET k == Len(MatchingRecords)
        m == Min2(req.tail, k)
        rows == RowsOf(res)
    IN  /\ Len(rows) = m
        /\ \A i \in 1..m : Shows(rows[i], MatchingRecords[k - m + i])
        /\ req.service # "" => \A i \in 1..Len(rows) : rows[i].service = req.service

LastOp == IF req = NoCall THEN "none" ELSE req.op

\* C23: NewProvider returns an UnsupportedKindError carrying cfg.Kind, and
\* no provider, iff cfg.Kind has not been registered; for a registered kind
\* it returns the result of the factory registered last for that kind; a
\* Register makes its factory the kind's factory and touches no other kind,
\* and no kind is ever removed.
C23_NewProviderByRegistry ==
    /\ [](LastOp = "NewProvider"
            => LET kind == req.cfg.Kind
               IN  /\ (kind \notin DOMAIN registry)
                        <=> (res.err.type = "UnsupportedKindError")
                   /\ res.err.type = "UnsupportedKindError"
                        => /\ res.err.Kind = kind
                           /\ res.provider = NilProvider
                   /\ kind \in DOMAIN registry
                        => res = CallFactory(registry[kind], req.cfg))
    /\ [](LastOp = "Register" => /\ req.kind \in DOMAIN registry
                                 /\ registry[req.kind] = req.factory)
    /\ [][ /\ DOMAIN registry \subseteq DOMAIN registry'
           /\ \A k \in DOMAIN registry :
                registry'[k] # registry[k] => req'.op = "Register" /\ req'.kind = k
           /\ LastOp' = "NewProvider" => registry' = registry ]_vars

\* a provider built by the factory that replaced the kind's first factory
C23_Witness ==
    /\ LastOp = "NewProvider"
    /\ req.cfg.Kind = "nats"
    /\ "nats" \in DOMAIN registry
    /\ registry["nats"] = "NewYourQueueProvider"
    /\ res.provider.type = "YourQueueProvider"

\* ----------------------------------------------------------------- C24
\* the fraction r equals num / den
RateIs(r, num, den) == r.num * den = num * r.den

\* the rate the claim gives for a counter sampled as first, then second
ClaimedRate(r, first, second, windowSec) ==
    IF second < first
    THEN RateIs(r, 0, 1)
    ELSE RateIs(r, second - first, windowSec)

\* C24 (as claimed): when GetMetrics returns metrics, rate_in and rate_out
\* are (second - first) / window_seconds for non-decreasing samples and 0
\* when the second sample is lower than the first; never negative nor a
\* wrapped-around large value.
C24_RateTreatsResetAsZero ==
    (res # NoCall /\ req.op = "GetMetrics" /\ res.err = "nil")
    => /\ ClaimedRate(res.metrics.RateIn, req.streamInfo1.Msgs,
                      req.streamInfo2.Msgs, req.windowSec)
       /\ ClaimedRate(res.metrics.RateOut, req.consumerInfo1.AckFloor,
                      req.consumerInfo2.AckFloor, req.windowSec)

\* ----------------------------------------------------------------- C21
\* the lines of the file: the runs of bytes ended by a newline, and the
\* bytes after the last newline
FileLines(file) ==
    LET RECURSIVE Split(_, _, _)
        Split(i, lines, cur) ==
            IF i > Len(file) THEN [lines |-> lines, rest |-> cur]
            ELSE IF file[i].b = "\n"
            THEN Split(i + 1, Append(lines, cur), << >>)
            ELSE Split(i + 1, lines, Append(cur, file[i]))
    IN  Split(1, << >>, << >>)

\* the line is one complete record: both halves of the same entry
CompleteRecord(line) ==
    /\ Len(line) = 2
    /\ line[1].b = "{" /\ line[2].b = "}"
    /\ line[1].of = line[2].of

Released(n) == n.conn # "open" /\ n.js = "nil"

\* address a is the provider of a use in progress
InUse(a) == \E c \in Services : qcall[c].prov = a

\* C30: a provider constructed for a collection or a pre-flight check is
\* closed when that use ends, on every exit path; a provider of no use in
\* progress holds no connection and GetMetrics on it fails as not
\* connected; and no provider is used by two callers.
C30_ProviderClosedOnEveryPath ==
    /\ [][ \A c \in Services :
             (qcall[c].prov # 0 /\ qcall'[c].pc = "idle")
             => /\ heap'[qcall[c].prov].conn = "nil"
                /\ heap'[qcall[c].prov].js = "nil" ]_vars
    /\ [](\A a \in 1..Len(heap) :
            ~InUse(a)
            => /\ Released(heap[a])
               /\ \A smp \in CollectSamples :
                    NatsGetMetrics(heap[a], 5, smp[1], smp[2], smp[3], smp[4]).err
                      = "not connected to NATS")
    /\ [](\A c \in Services : \A d \in Services \ {c} :
            qcall[c].prov # 0 => qcall[c].prov # qcall[d].prov)

\* one caller has returned from a failed metrics read while the other is
\* collecting on its own open connection
C30_Witness ==
    \E c \in Services : \E d \in Services \ {c} :
        /\ qcall[c].pc = "idle"
        /\ qcall[c].ret = "failed to get queue metrics"
        /\ qcall[d].pc = "metrics"
        /\ heap[qcall[d].prov].conn = "open"
        /\ Len(heap) >= 2

====
